---- MODULE Spec2Model ----
(***************************************************************************)
(* One page load of src/pages/index.tsx: getServerSideProps (one outbound  *)
(* fetch, map + reverse of the JSON body, catch-all error props) followed  *)
(* by the CurrencyExchangeGraph component (error panel or chart, axis      *)
(* domain, language toggle).                                               *)
(*                                                                         *)
(* Numbers.  A JavaScript number is modelled as a record                   *)
(*   [kind |-> "fin", m, e]   the decimal m / 10^e, trailing zeros removed *)
(*   [kind |-> "inf", m, e]   +Infinity (m = 1) or -Infinity (m = -1)      *)
(*   [kind |-> "NaN", m, e]                                                *)
(* so that equal records are equal numbers.  Arithmetic is exact decimal   *)
(* arithmetic; over the rate texts used below no product with 0.998 or     *)
(* 1.002 lies within a rounding error of an integer except 500 (both       *)
(* products are exactly 499 and 501 in IEEE doubles as well).              *)
(*                                                                         *)
(* Strings that are parsed (rate fields) are sequences of one-character    *)
(* strings; strings that are only built (display times) are TLA+ strings.  *)
(* The two CJK characters of the Chinese format are written <U+6708> and   *)
(* <U+65E5>.                                                               *)
(***************************************************************************)
EXTENDS Integers, Sequences, FiniteSets, TLC

VARIABLES
    tzOffset,       \* minutes east of UTC of the server's local time zone
    pc,             \* position of getServerSideProps: start, fetch, json, done
    fetchCount,     \* number of calls of fetch()
    outcome,        \* how the load went: pending, network, status, body, shape, ok
    data,           \* the parsed JSON body (local `data`), None before it is read
    props,          \* None, or Some([exchangeData, error]) returned to the page
    language,       \* the useState cell: unmounted, en, zh
    view,           \* what the component returned last: none, error, chart
    shownError,     \* None, or Some(text of the error panel)
    yDomain,        \* None, or Some(<<minRate, maxRate>>) handed to YAxis
    localizedData,  \* the array handed to LineChart
    toggles         \* number of clicks on the language button

vars == <<tzOffset, pc, fetchCount, outcome, data, props, language, view,
          shownError, yDomain, localizedData, toggles>>

\* The longest array in a response body, and the most clicks on the button.
MaxLen == 2
MaxToggles == 3

None == <<>>
Some(x) == <<x>>

(***************************************************************************)
(* Numbers                                                                 *)
(***************************************************************************)
NaN == [kind |-> "NaN", m |-> 0, e |-> 0]
Infinity == [kind |-> "inf", m |-> 1, e |-> 0]
NegInfinity == [kind |-> "inf", m |-> -1, e |-> 0]

RECURSIVE Pow10(_)
Pow10(n) == IF n = 0 THEN 1 ELSE 10 * Pow10(n - 1)

RECURSIVE Fin(_, _)
Fin(m, e) ==
    IF e > 0 /\ m % 10 = 0 THEN Fin(m \div 10, e - 1)
    ELSE [kind |-> "fin", m |-> m, e |-> e]

IsFinite(x) == x.kind = "fin"

\* x < y as IEEE numbers: false as soon as one side is NaN.
Less(x, y) ==
    CASE x.kind = "NaN" \/ y.kind = "NaN" -> FALSE
      [] x.kind = "inf" /\ y.kind = "inf" -> x.m < y.m
      [] x.kind = "inf" -> x.m < 0
      [] y.kind = "inf" -> y.m > 0
      [] OTHER -> x.m * Pow10(y.e) < y.m * Pow10(x.e)

\* x * (c / 1000) for a positive constant c.
Times(x, c) ==
    IF x.kind = "fin" THEN Fin(x.m * c, x.e + 3) ELSE x

MathFloor(x) ==
    IF x.kind = "fin" THEN Fin(x.m \div Pow10(x.e), 0) ELSE x

MathCeil(x) ==
    IF x.kind = "fin" THEN Fin(-((-x.m) \div Pow10(x.e)), 0) ELSE x

RECURSIVE MathMin(_)
MathMin(s) ==
    IF s = <<>> THEN Infinity
    ELSE LET h == Head(s)
             r == MathMin(Tail(s))
         IN  IF h.kind = "NaN" \/ r.kind = "NaN" THEN NaN
             ELSE IF Less(r, h) THEN r ELSE h

RECURSIVE MathMax(_)
MathMax(s) ==
    IF s = <<>> THEN NegInfinity
    ELSE LET h == Head(s)
             r == MathMax(Tail(s))
         IN  IF h.kind = "NaN" \/ r.kind = "NaN" THEN NaN
             ELSE IF Less(h, r) THEN r ELSE h

(***************************************************************************)
(* parseFloat                                                              *)
(***************************************************************************)
DigitChars == <<"0", "1", "2", "3", "4", "5", "6", "7", "8", "9">>
IsDigit(c) == \E i \in 1..10 : DigitChars[i] = c
DigitVal(c) == (CHOOSE i \in 1..10 : DigitChars[i] = c) - 1

InfinityText == <<"I", "n", "f", "i", "n", "i", "t", "y">>

RECURSIVE TrimStart(_)
TrimStart(s) ==
    IF s # <<>> /\ Head(s) = " " THEN TrimStart(Tail(s)) ELSE s

\* Length of the longest prefix of s made of digits.
RECURSIVE DigitRun(_)
DigitRun(s) ==
    IF s # <<>> /\ IsDigit(Head(s)) THEN 1 + DigitRun(Tail(s)) ELSE 0

\* The digits s[1..n] read as a decimal integer.
RECURSIVE DigitsValue(_, _)
DigitsValue(s, n) ==
    IF n = 0 THEN 0 ELSE 10 * DigitsValue(s, n - 1) + DigitVal(s[n])

StartsWith(s, p) ==
    Len(s) >= Len(p) /\ SubSeq(s, 1, Len(p)) = p

\* String(v) of a JSON value used as a rate field: a string is itself, a
\* number is its shortest decimal text, null is "null".
ToStringValue(raw) ==
    IF raw.type = "null" THEN <<"n", "u", "l", "l">> ELSE raw.text

\* parseFloat(raw): the longest prefix of the trimmed text that is a decimal
\* literal (sign, digits, point, digits; or a signed Infinity), NaN if none.
parseFloat(raw) ==
    LET s    == TrimStart(ToStringValue(raw))
        neg  == s # <<>> /\ Head(s) = "-"
        sgn  == s # <<>> /\ Head(s) \in {"-", "+"}
        u    == IF sgn THEN Tail(s) ELSE s
        a    == DigitRun(u)
        rest == SubSeq(u, a + 1, Len(u))
        dot  == rest # <<>> /\ Head(rest) = "."
        frac == IF dot THEN Tail(rest) ELSE <<>>
        b    == DigitRun(frac)
        mag  == DigitsValue(u, a) * Pow10(b) + DigitsValue(frac, b)
    IN  IF StartsWith(u, InfinityText)
          THEN (IF neg THEN NegInfinity ELSE Infinity)
        ELSE IF a + b = 0 THEN NaN
        ELSE Fin(IF neg THEN -mag ELSE mag, b)

(***************************************************************************)
(* Date: a timestamp text, the time value new Date() makes of it, and the  *)
(* local-time getters.  A timestamp is written as calendar fields with a   *)
(* designator z: "Z" (UTC) or "" (none: a local date-time), or is not a    *)
(* date at all (valid = FALSE).  Time values are minutes since 1970-01-01  *)
(* (seconds are never displayed).                                          *)
(***************************************************************************)
InvalidTimestamp ==
    [valid |-> FALSE, y |-> 0, mo |-> 0, d |-> 0, h |-> 0, mi |-> 0, z |-> ""]

Timestamp(y, mo, d, h, mi, z) ==
    [valid |-> TRUE, y |-> y, mo |-> mo, d |-> d, h |-> h, mi |-> mi, z |-> z]

InvalidDate == [valid |-> FALSE, t |-> 0]

\* Days from 1970-01-01 to the civil date y-mo-d (proleptic Gregorian).
DaysFromCivil(y, mo, d) ==
    LET yy  == IF mo <= 2 THEN y - 1 ELSE y
        era == yy \div 400
        yoe == yy - era * 400
        mp  == IF mo > 2 THEN mo - 3 ELSE mo + 9
        doy == (153 * mp + 2) \div 5 + d - 1
        doe == yoe * 365 + yoe \div 4 - yoe \div 100 + doy
    IN  era * 146097 + doe - 719468

\* The civil date <<y, mo, d>> of a day number.
CivilFromDays(n) ==
    LET z   == n + 719468
        era == z \div 146097
        doe == z - era * 146097
        yoe == (doe - doe \div 1460 + doe \div 36524 - doe \div 146096) \div 365
        doy == doe - (365 * yoe + yoe \div 4 - yoe \div 100)
        mp  == (5 * doy + 2) \div 153
        d   == doy - (153 * mp + 2) \div 5 + 1
        mo  == IF mp < 10 THEN mp + 3 ELSE mp - 9
        y   == yoe + era * 400 + (IF mo <= 2 THEN 1 ELSE 0)
    IN  <<y, mo, d>>

\* new Date(item.timestamp): a "Z" text is a UTC instant, a text without
\* designator is read as local time of the server.
NewDate(ts) ==
    IF ~ts.valid THEN InvalidDate
    ELSE LET written == DaysFromCivil(ts.y, ts.mo, ts.d) * 1440 + ts.h * 60 + ts.mi
         IN  [valid |-> TRUE,
              t |-> IF ts.z = "Z" THEN written ELSE written - tzOffset]

LocalMinutes(date) == date.t + tzOffset
LocalCivil(date) == CivilFromDays(LocalMinutes(date) \div 1440)

\* A variant of getHours that reads the UTC hour (getUTCHours).
getHoursUTC(date) ==
    IF date.valid THEN Fin((date.t % 1440) \div 60, 0) ELSE NaN

\* The getters answer NaN on an invalid date.
getDate(date) ==
    IF date.valid THEN Fin(LocalCivil(date)[3], 0) ELSE NaN
getMonth(date) ==
    IF date.valid THEN Fin(LocalCivil(date)[2] - 1, 0) ELSE NaN
getHours(date) ==
    IF date.valid THEN Fin((LocalMinutes(date) % 1440) \div 60, 0) ELSE NaN
getMinutes(date) ==
    IF date.valid THEN Fin(LocalMinutes(date) % 60, 0) ELSE NaN

MonthShort ==
    <<"Jan", "Feb", "Mar", "Apr", "May", "Jun",
      "Jul", "Aug", "Sep", "Oct", "Nov", "Dec">>

\* date.toLocaleString('en-US', { month: 'short' })
toLocaleMonthShort(date) ==
    IF date.valid THEN MonthShort[LocalCivil(date)[2]] ELSE "Invalid Date"

\* Number.prototype.toString of an integer-valued number or NaN.
NumberToString(x) ==
    IF x.kind = "NaN" THEN "NaN" ELSE ToString(x.m)

Plus1(x) == IF x.kind = "fin" THEN Fin(x.m + 1, 0) ELSE x

\* s.padStart(2, '0')
padStart2(s) ==
    IF Len(s) >= 2 THEN s ELSE IF Len(s) = 1 THEN "0" \o s ELSE "00"

Yue == "<U+6708>"
Ri == "<U+65E5>"

\* index.tsx lines 70-75
formattedTimeEn(date) ==
    LET monthEn   == toLocaleMonthShort(date)
        dayEn     == padStart2(NumberToString(getDate(date)))
        hoursEn   == padStart2(NumberToString(getHours(date)))
        minutesEn == padStart2(NumberToString(getMinutes(date)))
    IN  monthEn \o "-" \o dayEn \o " " \o hoursEn \o ":" \o minutesEn

\* index.tsx lines 77-82
formattedTimeZh(date) ==
    LET monthZh   == NumberToString(Plus1(getMonth(date)))
        dayZh     == NumberToString(getDate(date))
        hoursZh   == padStart2(NumberToString(getHours(date)))
        minutesZh == padStart2(NumberToString(getMinutes(date)))
    IN  monthZh \o Yue \o dayZh \o Ri \o " " \o hoursZh \o ":" \o minutesZh

\* The callback of data.map: one raw item to one ExchangeRateData.
MapItem(item) ==
    LET date == NewDate(item.timestamp)
    IN  [timestamp     |-> item.timestamp,
         formattedTime |-> [en |-> formattedTimeEn(date),
                            zh |-> formattedTimeZh(date)],
         buying_rate   |-> parseFloat(item.buying_rate),
         selling_rate  |-> parseFloat(item.selling_rate)]

\* Variants of the reversal: one that leaves the array as it is, one whose
\* loop stops one element short.
ReverseForgotten(s) == s
ReverseDroppingLast(s) == [i \in 1..(Len(s) - 1) |-> s[Len(s) - i]]

\* Array.prototype.reverse
Reverse(s) == [i \in 1..Len(s) |-> s[Len(s) + 1 - i]]

\* data.map(...).reverse() of lines 66-94; the elements of the array are
\* Some(item), or None for a JSON null.
FormattedData(arr) == Reverse([i \in 1..Len(arr) |-> MapItem(arr[i][1])])

(***************************************************************************)
(* What the remote rate source and the server environment may supply.      *)
(***************************************************************************)
Str(chars) == [type |-> "string", text |-> chars]
NumLit(chars) == [type |-> "number", text |-> chars]
Null == [type |-> "null", text |-> <<>>]

Record(b, s, ts) == [buying_rate |-> b, selling_rate |-> s, timestamp |-> ts]

\* Server time zones: UTC-10, UTC, UTC+8.
TimeZones == {-600, 0, 480}

\* HTTP statuses; response.ok is 200..299.
Statuses == {200, 204, 404, 500}
ResponseOk(status) == status >= 200 /\ status <= 299

\* Records of the multi-record bodies.
BatchTimestamps ==
    {Timestamp(2024, 3, 1, 9, 5, "Z"), Timestamp(2024, 3, 2, 9, 5, "Z")}
BatchBuying ==
    {Str(<<"4", ".", "6", "0">>), NumLit(<<"4", ".", "6", "5">>),
     Str(<<"a", "b", "c">>)}
BatchSelling ==
    {Str(<<"4", ".", "8", "5">>), Str(<<"4", ".", "9", "0">>), Null}
BatchItems ==
    {Some(Record(b, s, ts)) :
        b \in BatchBuying, s \in BatchSelling, ts \in BatchTimestamps}
    \cup {None}

\* Single-record bodies that vary the timestamp.
WideTimestamps ==
    {Timestamp(y, mo, d, h, mi, z) :
        y \in {2024}, mo \in {1, 3, 10, 12}, d \in {1, 10, 31},
        h \in {0, 9, 23}, mi \in {5, 30}, z \in {"Z", ""}}
    \cup {InvalidTimestamp}

\* Single-record bodies that vary the rate texts.
WideRates ==
    {Str(<<"4", ".", "6", "2">>), NumLit(<<"4", ".", "8", "8">>),
     Str(<<"5", "0", "0">>), Str(<<"0">>), Str(<<"-", "1", ".", "5">>),
     Str(<<" ", "4", ".", "6">>), Str(<<"4", ".", "6", "a", "b", "c">>),
     Str(<<".", "5">>), Str(<<"5", ".">>), Str(<<"+", "7">>),
     Str(InfinityText), Str(<<"-">> \o InfinityText),
     Str(<<"a", "b", "c">>), Str(<<>>), Null}

Array(items) == [isArray |-> TRUE, items |-> items]
NotArray == [isArray |-> FALSE, items |-> <<>>]

Bodies ==
    {NotArray}
    \cup {Array(s) : s \in UNION {[1..k -> BatchItems] : k \in 0..MaxLen}}
    \cup {Array(<<Some(Record(Str(<<"4", ".", "6", "2">>),
                              Str(<<"4", ".", "8", "8">>), ts))>>) :
            ts \in WideTimestamps}
    \cup {Array(<<Some(Record(b, s, Timestamp(2024, 3, 1, 9, 5, "Z")))>>) :
            b \in WideRates, s \in WideRates}

(***************************************************************************)
(* getServerSideProps, lines 54-113                                        *)
(***************************************************************************)
ErrorMessage == "Failed to fetch exchange rate data. Please try again later."

\* A variant of the catch block that returns no message.
CatchPropsWithoutError == [exchangeData |-> <<>>, error |-> None]

\* The props of the catch block, lines 103-112.
CatchProps == [exchangeData |-> <<>>, error |-> Some(ErrorMessage)]

\* The props of the try block, lines 96-102.
OkProps(items) == [exchangeData |-> FormattedData(items), error |-> None]

\* data.map(...) throws a TypeError when data has no map method or when an
\* element is null (item.timestamp of null).
MapThrows(body) ==
    ~body.isArray \/ \E i \in 1..Len(body.items) : body.items[i] = None

Caught(kind) ==
    /\ pc' = "done"
    /\ outcome' = kind
    /\ props' = Some(CatchProps)

Init ==
    /\ tzOffset \in TimeZones
    /\ pc = "start"
    /\ fetchCount = 0
    /\ outcome = "pending"
    /\ data = None
    /\ props = None
    /\ language = "unmounted"
    /\ view = "none"
    /\ shownError = None
    /\ yDomain = None
    /\ localizedData = <<>>
    /\ toggles = 0

\* line 57: the call of fetch, up to its await.
CallFetch ==
    /\ pc = "start"
    /\ pc' = "fetch"
    /\ fetchCount' = fetchCount + 1
    /\ UNCHANGED <<tzOffset, outcome, data, props, language, view,
                   shownError, yDomain, localizedData, toggles>>

\* A variant of the rejection handler that calls fetch once more before
\* giving up.
FetchRejectsRetrying ==
    /\ pc = "fetch"
    /\ IF fetchCount < 2
         THEN pc' = "start" /\ UNCHANGED <<outcome, props>>
         ELSE Caught("network")
    /\ UNCHANGED <<tzOffset, fetchCount, data, language, view,
                   shownError, yDomain, localizedData, toggles>>

\* line 57: the fetch promise rejects (network failure); lines 103-112.
FetchRejects ==
    /\ pc = "fetch"
    /\ Caught("network")
    /\ UNCHANGED <<tzOffset, fetchCount, data, language, view,
                   shownError, yDomain, localizedData, toggles>>

\* lines 57-63: the fetch promise resolves with a response of this status.
FetchResolves(status) ==
    /\ pc = "fetch"
    /\ IF ResponseOk(status)
         THEN pc' = "json" /\ UNCHANGED <<outcome, props>>
         ELSE Caught("status")
    /\ UNCHANGED <<tzOffset, fetchCount, data, language, view,
                   shownError, yDomain, localizedData, toggles>>

\* line 63: response.json() rejects (the body is not JSON).
JsonRejects ==
    /\ pc = "json"
    /\ Caught("body")
    /\ UNCHANGED <<tzOffset, fetchCount, data, language, view,
                   shownError, yDomain, localizedData, toggles>>

\* lines 63-102: response.json() resolves with some body; map, reverse,
\* return.
JsonResolves ==
    /\ pc = "json"
    /\ \E body \in Bodies :
          /\ data' = Some(body)
          /\ IF MapThrows(body)
               THEN Caught("shape")
               ELSE /\ pc' = "done"
                    /\ outcome' = "ok"
                    /\ props' = Some(OkProps(body.items))
    /\ UNCHANGED <<tzOffset, fetchCount, language, view,
                   shownError, yDomain, localizedData, toggles>>

(***************************************************************************)
(* CurrencyExchangeGraph, lines 115-245                                    *)
(***************************************************************************)
\* if (error): null and the empty string are falsy.
Truthy(error) == error # None /\ error[1] # ""

Pool(exchangeData) ==
    [i \in 1..Len(exchangeData) |-> exchangeData[i].buying_rate]
    \o [i \in 1..Len(exchangeData) |-> exchangeData[i].selling_rate]

\* lines 136-139
minRate(exchangeData) == MathFloor(Times(MathMin(Pool(exchangeData)), 998))

\* lines 141-144
maxRate(exchangeData) == MathCeil(Times(MathMax(Pool(exchangeData)), 1002))

\* A variant of the projection that always shows the English string.
LocalizedDataEnglishOnly(exchangeData, lang) ==
    [i \in 1..Len(exchangeData) |->
        [exchangeData[i] EXCEPT !.formattedTime = @["en"]]]

\* lines 147-150
LocalizedData(exchangeData, lang) ==
    [i \in 1..Len(exchangeData) |->
        [exchangeData[i] EXCEPT !.formattedTime = @[lang]]]

\* One run of the component body with these props and this language,
\* lines 125-244.
Component(p, lang) ==
    IF Truthy(p.error)
      THEN /\ view' = "error"
           /\ shownError' = p.error
           /\ yDomain' = None
           /\ localizedData' = <<>>
      ELSE /\ view' = "chart"
           /\ shownError' = None
           /\ yDomain' = Some(<<minRate(p.exchangeData), maxRate(p.exchangeData)>>)
           /\ localizedData' = LocalizedData(p.exchangeData, lang)

\* line 117: the initial value of the language state.
InitialLanguage == "en"

\* The first render of the page with the props getServerSideProps returned.
Render ==
    /\ pc = "done"
    /\ view = "none"
    /\ language' = InitialLanguage
    /\ Component(props[1], language')
    /\ UNCHANGED <<tzOffset, pc, fetchCount, outcome, data, props, toggles>>

\* A variant of the toggle that can only switch to Chinese.
toggleLanguageOneWay ==
    /\ view = "chart"
    /\ toggles < MaxToggles
    /\ toggles' = toggles + 1
    /\ language' = "zh"
    /\ Component(props[1], language')
    /\ UNCHANGED <<tzOffset, pc, fetchCount, outcome, data, props>>

\* lines 121-123, and the re-render the state change causes.  The button
\* exists only in the chart view (lines 160-165).
toggleLanguage ==
    /\ view = "chart"
    /\ toggles < MaxToggles
    /\ toggles' = toggles + 1
    /\ language' = (IF language = "en" THEN "zh" ELSE "en")
    /\ Component(props[1], language')
    /\ UNCHANGED <<tzOffset, pc, fetchCount, outcome, data, props>>

Next ==
    \/ CallFetch
    \/ FetchRejects
    \/ \E status \in Statuses : FetchResolves(status)
    \/ JsonRejects
    \/ JsonResolves
    \/ Render
    \/ toggleLanguage

Spec == Init /\ [][Next]_vars

(***************************************************************************)
(* Properties                                                              *)
(***************************************************************************)
Items == data[1].items
ExchangeData == props[1].exchangeData
Failed == outcome \in {"network", "status", "body", "shape"}
Other(lang) == IF lang = "en" THEN "zh" ELSE "en"

\* C1: whenever the fetch fails (network failure, a status outside 200..299,
\* a body that is not JSON, a body that cannot be mapped), getServerSideProps
\* has returned the empty exchangeData with the fixed message, the page
\* shows the error panel with that message and no chart; and in no state is
\* an error set while a chart (axis domain or chart rows) is rendered.
C1_FailureGivesErrorPanel ==
    /\ Failed =>
         /\ pc = "done"
         /\ props = Some([exchangeData |-> <<>>, error |-> Some(ErrorMessage)])
         /\ view \in {"none", "error"}
         /\ view = "error" => shownError = Some(ErrorMessage)
    /\ (props # None /\ props[1].error # None) =>
         /\ view # "chart"
         /\ yDomain = None
         /\ localizedData = <<>>

C1_Witness ==
    /\ outcome = "status"
    /\ view = "error"
    /\ shownError = Some(ErrorMessage)

\* Chronological order of timestamps: by the instants they denote.
Instant(ts) == NewDate(ts).t
NotAfter(a, b) == a.valid /\ b.valid /\ Instant(a) <= Instant(b)
NonDecreasing(tss) ==
    \A i \in 1..(Len(tss) - 1) : NotAfter(tss[i], tss[i + 1])
NonIncreasing(tss) ==
    \A i \in 1..(Len(tss) - 1) : NotAfter(tss[i + 1], tss[i])
SourceTimestamps == [i \in 1..Len(Items) |-> Items[i][1].timestamp]
OutputTimestamps == [i \in 1..Len(ExchangeData) |-> ExchangeData[i].timestamp]
NumericRates ==
    \A i \in 1..Len(Items) :
        /\ IsFinite(parseFloat(Items[i][1].buying_rate))
        /\ IsFinite(parseFloat(Items[i][1].selling_rate))
TransformedBatch == outcome = "ok" /\ Len(Items) > 0 /\ NumericRates

\* C2 as stated: for every non-empty raw array with numeric rates the
\* output has the input's length and non-decreasing timestamps, whatever
\* the order of the source array.
C2_AscendingWhateverTheSourceOrder ==
    TransformedBatch =>
        /\ Len(ExchangeData) = Len(Items)
        /\ NonDecreasing(OutputTimestamps)

\* C2 amended: for every non-empty raw array with numeric rates the output
\* has the input's length and is the input in reverse order, so its
\* timestamps are non-decreasing whenever the source array is newest-first.
C2_ReversedSoAscendingIfNewestFirst ==
    TransformedBatch =>
        /\ Len(ExchangeData) = Len(Items)
        /\ \A i \in 1..Len(Items) :
              ExchangeData[i].timestamp = Items[Len(Items) + 1 - i][1].timestamp
        /\ NonIncreasing(SourceTimestamps) => NonDecreasing(OutputTimestamps)

C2_Witness ==
    /\ TransformedBatch
    /\ Len(Items) = 2
    /\ Instant(Items[1][1].timestamp) > Instant(Items[2][1].timestamp)
    /\ Instant(ExchangeData[1].timestamp) < Instant(ExchangeData[2].timestamp)

\* C3: an empty array with a success status ends in the error panel, and
\* no axis domain is computed from zero records.
C3_EmptyDatasetReported ==
    (outcome = "ok" /\ Items = <<>> /\ view # "none") =>
        /\ view = "error"
        /\ yDomain = None

\* C4: every record that reaches the chart has finite buying and selling
\* rates (a non-numeric rate field ends the request in the error panel).
C4_ChartRatesFinite ==
    view = "chart" =>
        \A i \in 1..Len(localizedData) :
            /\ IsFinite(localizedData[i].buying_rate)
            /\ IsFinite(localizedData[i].selling_rate)

\* The chart shows, for each record, the time string of the active language.
DisplaysActiveLanguage ==
    view = "chart" =>
        /\ Len(localizedData) = Len(ExchangeData)
        /\ \A i \in 1..Len(localizedData) :
              localizedData[i].formattedTime = ExchangeData[i].formattedTime[language]

\* C5: a toggle changes the active language and nothing of the load: the
\* fetch count stays one, exchangeData (rates, timestamps, both time
\* strings) is unchanged, and each record's displayed time is the
\* pre-computed string of the language then active.
C5_ToggleChangesOnlyLanguage ==
    [][toggles' # toggles =>
          /\ language' = Other(language)
          /\ fetchCount = 1 /\ fetchCount' = 1
          /\ props' = props
          /\ UNCHANGED <<pc, outcome, data, tzOffset>>
          /\ DisplaysActiveLanguage /\ DisplaysActiveLanguage']_vars

C5_Witness ==
    /\ toggles = 2
    /\ view = "chart"
    /\ Len(localizedData) = 2
    /\ localizedData[1].formattedTime = ExchangeData[1].formattedTime.en
    /\ ExchangeData[1].formattedTime.en # ExchangeData[1].formattedTime.zh

SeqToSet(s) == {s[i] : i \in 1..Len(s)}
IsInteger(x) == x.kind = "fin" /\ x.e = 0
Positive(x) == Less(Fin(0, 0), x)

\* k = floor(c/1000 * x) for a finite x
IsFloorOf(k, c, x) ==
    /\ IsInteger(k) /\ IsFinite(x)
    /\ k.m * 1000 * Pow10(x.e) <= c * x.m
    /\ c * x.m < (k.m + 1) * 1000 * Pow10(x.e)

\* k = ceil(c/1000 * x) for a finite x
IsCeilOf(k, c, x) ==
    /\ IsInteger(k) /\ IsFinite(x)
    /\ (k.m - 1) * 1000 * Pow10(x.e) < c * x.m
    /\ c * x.m <= k.m * 1000 * Pow10(x.e)

\* C6: for every non-empty batch in the chart the axis domain is
\* min = floor(0.998 x least rate), max = ceil(1.002 x greatest rate) over
\* the buying and selling rates pooled, and min < max when all rates are
\* positive; buying [4.60, 4.65] with selling [4.85, 4.90] gives [4, 5].
C6_DomainOfEveryBatch ==
    (view = "chart" /\ Len(ExchangeData) > 0) =>
        LET rates == SeqToSet(Pool(ExchangeData))
        IN  /\ \E lo \in rates :
                 /\ \A x \in rates : ~Less(x, lo)
                 /\ IsFloorOf(yDomain[1][1], 998, lo)
            /\ \E hi \in rates :
                 /\ \A x \in rates : ~Less(hi, x)
                 /\ IsCeilOf(yDomain[1][2], 1002, hi)
            /\ (\A x \in rates : Positive(x)) => Less(yDomain[1][1], yDomain[1][2])

\* What remains of C6 when no NaN or Infinity reached the chart: for every
\* non-empty batch of finite rates the domain is the floor and the ceiling
\* above, and min < max when the rates are positive.
DomainOfFiniteBatch ==
    (/\ view = "chart" /\ Len(ExchangeData) > 0
     /\ \A x \in SeqToSet(Pool(ExchangeData)) : IsFinite(x))
        => C6_DomainOfEveryBatch

\* C7: one fetch per load, never a second one, and nothing is rendered
\* before the fetch has settled and getServerSideProps has returned either
\* the transformed data or the error props.
C7_OneFetchThenRender ==
    /\ fetchCount <= 1
    /\ pc # "start" => fetchCount = 1
    /\ pc \in {"start", "fetch", "json"} =>
         (view = "none" /\ props = None /\ outcome = "pending")
    /\ view # "none" =>
         /\ pc = "done"
         /\ fetchCount = 1
         /\ props # None
         /\ outcome # "pending"
         /\ outcome = "ok" => ExchangeData = FormattedData(Items)

C7_Witness ==
    /\ view = "chart"
    /\ fetchCount = 1
    /\ toggles = MaxToggles

Two(n) == IF n < 10 THEN "0" \o ToString(n) ELSE ToString(n)
EnglishTime(mo, d, h, mi) ==
    MonthShort[mo] \o "-" \o Two(d) \o " " \o Two(h) \o ":" \o Two(mi)
ChineseTime(mo, d, h, mi) ==
    ToString(mo) \o Yue \o ToString(d) \o Ri \o " " \o Two(h) \o ":" \o Two(mi)

IsLeapYear(y) == y % 4 = 0 /\ (y % 100 # 0 \/ y % 400 = 0)
DaysInMonth(y, mo) ==
    IF mo = 2 THEN (IF IsLeapYear(y) THEN 29 ELSE 28)
    ELSE IF mo \in {4, 6, 9, 11} THEN 30 ELSE 31

NextDay(y, mo, d) ==
    IF d < DaysInMonth(y, mo) THEN <<mo, d + 1>>
    ELSE IF mo < 12 THEN <<mo + 1, 1>> ELSE <<1, 1>>
PreviousDay(y, mo, d) ==
    IF d > 1 THEN <<mo, d - 1>>
    ELSE IF mo > 1 THEN <<mo - 1, DaysInMonth(y, mo - 1)>> ELSE <<12, 31>>

\* <<mo, d, h, mi>>: the calendar fields of ts in the server's zone: the
\* fields as written when ts has no designator; when ts is a "Z" text, the
\* written time of day moved by the server's UTC offset (less than a day),
\* on the written day, the day before or the day after.
ServerLocalFields(ts) ==
    LET moved == ts.h * 60 + ts.mi + (IF ts.z = "Z" THEN tzOffset ELSE 0)
        day   == CASE moved < 0 -> PreviousDay(ts.y, ts.mo, ts.d)
                   [] moved >= 1440 -> NextDay(ts.y, ts.mo, ts.d)
                   [] OTHER -> <<ts.mo, ts.d>>
        clock == (moved + 1440) % 1440
    IN  <<day[1], day[2], clock \div 60, clock % 60>>

DatedRecords ==
    IF outcome = "ok"
      THEN {i \in 1..Len(ExchangeData) : ExchangeData[i].timestamp.valid}
      ELSE {}

Mapped == [i \in 1..Len(Items) |-> MapItem(Items[i][1])]

\* C9: reversing the transformer's reversed array again gives back the
\* array that was reversed, element for element and in the same order.
C9_ReverseRoundTrip ==
    outcome = "ok" => Reverse(ExchangeData) = Mapped

C9_Witness ==
    /\ outcome = "ok"
    /\ Len(ExchangeData) = 2
    /\ ExchangeData[1] # ExchangeData[2]
    /\ ExchangeData[1] = Mapped[2]

SameButTime(a, b) ==
    /\ a.buying_rate = b.buying_rate
    /\ a.selling_rate = b.selling_rate
    /\ a.timestamp = b.timestamp

\* C10: the language is unset before the first render, 'en' at the first
\* render, afterwards always 'en' or 'zh' and 'en' exactly after an even
\* number of toggles; a toggle leaves the number, order and rates of the
\* rendered records and the axis domain as they were.
C10_LanguageParityAndSameChart ==
    /\ [](/\ view = "none" => language = "unmounted"
          /\ view # "none" =>
               /\ language \in {"en", "zh"}
               /\ language = "en" <=> toggles % 2 = 0)
    /\ [][toggles' # toggles =>
            /\ view = "chart" /\ view' = "chart"
            /\ yDomain' = yDomain
            /\ Len(localizedData') = Len(localizedData)
            /\ \A i \in 1..Len(localizedData) :
                  SameButTime(localizedData'[i], localizedData[i])]_vars

C10_Witness ==
    /\ toggles = 2
    /\ language = "en"
    /\ view = "chart"
    /\ Len(localizedData) = 2
    /\ yDomain = Some(<<Fin(4, 0), Fin(5, 0)>>)

====
